---------------------------- MODULE Spec2Model ----------------------------
(***************************************************************************)
(* A model of register_functions_as_routes_fastapi.py: the decorator       *)
(* extractor and parser, the router finder and the route registrar.        *)
(*                                                                         *)
(* Python strings are TLA+ strings; TLC evaluates Len, \o and SubSeq on    *)
(* them, so every string operation of the source (find, strip, lstrip,     *)
(* splitlines, split, replace, startswith, upper, the regular expression)  *)
(* is computed character by character as the source computes it.           *)
(***************************************************************************)
EXTENDS Integers, Sequences, FiniteSets, TLC

VARIABLES
    module,       \* the module object handed to register_functions_as_routes
    routes,       \* router object -> its list of route entries
    pc,           \* position of the caller: idle | loop | returned | raised
    router_name,  \* local of register_functions_as_routes (line 73)
    router,       \* local of register_functions_as_routes (line 73)
    members,      \* the list inspect.getmembers returned (line 74)
    idx,          \* number of members the for loop has taken so far
    inspected,    \* attribute names whose function get_decorators was called on
    methods,      \* the methods argument of the running invocation
    extra,        \* the *args / **kwargs of the running invocation
    err,          \* the exception that left the invocation, or "None"
    before,       \* routes as they were when the running invocation began
    calls,        \* invocations begun so far
    clean,        \* TRUE while no invocation has raised
    line,         \* the argument of parse_decorator_line (parser runs)
    result        \* what parse_decorator_line returned, or Unparsed

vars == <<module, routes, pc, router_name, router, members, idx, inspected,
          methods, extra, err, before, calls, clean, line, result>>

-----------------------------------------------------------------------------
(* Bounds of the model.                                                    *)

\* most attributes a module of the model holds
MaxAttrs == 4
\* most invocations of register_functions_as_routes in one behaviour
MaxCalls == 2
\* most arguments in a generated decorator line
MaxArgs == 2

-----------------------------------------------------------------------------
(* Python string operations.                                               *)

\* s[i] for a 1-based i
At(s, i) == SubSeq(s, i, i)

Chars(s) == {At(s, i) : i \in 1..Len(s)}

\* str.isspace of one character (the ASCII whitespace of str.strip and \s)
Whitespace == {" ", "\t", "\n", "\r"}

\* the characters re's \w matches
WordChars == Chars("abcdefghijklmnopqrstuvwxyzABCDEFGHIJKLMNOPQRSTUVWXYZ0123456789_")

\* s.startswith(p)
StartsWith(s, p) == Len(p) <= Len(s) /\ SubSeq(s, 1, Len(p)) = p

\* s.find(sub): the 0-based index of the first occurrence, -1 when there is none
Find(s, sub) ==
    LET hits == {i \in 1..(Len(s) - Len(sub) + 1) : SubSeq(s, i, i + Len(sub) - 1) = sub}
    IN  IF hits = {} THEN -1
        ELSE (CHOOSE i \in hits : \A j \in hits : i <= j) - 1

\* s[:k], with Python's meaning of a negative k
SliceTo(s, k) ==
    IF k >= 0 THEN SubSeq(s, 1, IF k < Len(s) THEN k ELSE Len(s))
    ELSE SubSeq(s, 1, IF Len(s) + k > 0 THEN Len(s) + k ELSE 0)

RECURSIVE LStripSet(_, _)
\* s.lstrip(chars)
LStripSet(s, cs) ==
    IF Len(s) > 0 /\ At(s, 1) \in cs THEN LStripSet(SubSeq(s, 2, Len(s)), cs) ELSE s

RECURSIVE RStripSet(_, _)
\* s.rstrip(chars)
RStripSet(s, cs) ==
    IF Len(s) > 0 /\ At(s, Len(s)) \in cs THEN RStripSet(SubSeq(s, 1, Len(s) - 1), cs) ELSE s

\* s.strip()
Strip(s) == RStripSet(LStripSet(s, Whitespace), Whitespace)

RECURSIVE SplitOn(_, _)
\* s.split(sep) for a one-character sep: always at least one piece
SplitOn(s, sep) ==
    LET k == Find(s, sep)
    IN  IF k = -1 THEN <<s>>
        ELSE <<SubSeq(s, 1, k)>> \o SplitOn(SubSeq(s, k + 2, Len(s)), sep)

\* s.splitlines(): no piece for the empty string, none after a final line break
SplitLines(s) ==
    IF s = "" THEN <<>>
    ELSE IF At(s, Len(s)) = "\n" THEN SplitOn(SubSeq(s, 1, Len(s) - 1), "\n")
    ELSE SplitOn(s, "\n")

RECURSIVE ReplaceChar(_, _, _)
\* s.replace(old, new) for one-character old and new: every occurrence
ReplaceChar(s, old, new) ==
    IF s = "" THEN ""
    ELSE (IF At(s, 1) = old THEN new ELSE At(s, 1))
         \o ReplaceChar(SubSeq(s, 2, Len(s)), old, new)

LowerCase == "abcdefghijklmnopqrstuvwxyz"
UpperCase == "ABCDEFGHIJKLMNOPQRSTUVWXYZ"

UpperChar(c) ==
    IF c \in Chars(LowerCase)
    THEN At(UpperCase, CHOOSE i \in 1..Len(LowerCase) : At(LowerCase, i) = c)
    ELSE c

RECURSIVE Upper(_)
\* s.upper()
Upper(s) == IF s = "" THEN "" ELSE UpperChar(At(s, 1)) \o Upper(SubSeq(s, 2, Len(s)))

\* [f(x) for x in xs]
StripAll(xs) == [i \in 1..Len(xs) |-> Strip(xs[i])]

UpperAll(xs) == [i \in 1..Len(xs) |-> Upper(xs[i])]

\* the code points of the characters attribute names are made of, in order
CodeOrder == "0123456789ABCDEFGHIJKLMNOPQRSTUVWXYZ_abcdefghijklmnopqrstuvwxyz"

Ord(c) == CHOOSE i \in 1..Len(CodeOrder) : At(CodeOrder, i) = c

RECURSIVE StrLess(_, _)
\* a < b on Python strings
StrLess(a, b) ==
    IF b = "" THEN FALSE
    ELSE IF a = "" THEN TRUE
    ELSE IF At(a, 1) = At(b, 1) THEN StrLess(SubSeq(a, 2, Len(a)), SubSeq(b, 2, Len(b)))
    ELSE Ord(At(a, 1)) < Ord(At(b, 1))

-----------------------------------------------------------------------------
(* The decorator parser.                                                   *)

\* the length of the longest prefix of s made of characters of cs
RunLen(s, cs) ==
    LET stops == {i \in 1..Len(s) : At(s, i) \notin cs}
    IN  IF stops = {} THEN Len(s) ELSE (CHOOSE i \in stops : \A j \in stops : i <= j) - 1

\* re.match(r"(\w[\w\.]*)\s*(\((.*)\))?", deco).groups(), or NoMatch.
\* Group 1 is the longest run of [\w.] after a first \w; \s* takes the
\* whitespace after it; the optional group needs "(" right there and a ")"
\* later on the line, and its greedy .* then ends at the last ")".  No
\* backtracking of group 1 or of \s* can put a "(" at the group's start, so
\* when the group cannot match it is skipped and groups 2 and 3 are None.
NoMatch == [matched |-> FALSE]

ReMatch(deco) ==
    IF deco = "" \/ At(deco, 1) \notin WordChars THEN NoMatch
    ELSE
        LET n      == RunLen(deco, WordChars \cup {"."})
            rest   == SubSeq(deco, n + 1, Len(deco))
            sp     == RunLen(rest, Whitespace)
            tail   == SubSeq(rest, sp + 1, Len(rest))
            closes == {i \in 2..Len(tail) : At(tail, i) = ")"}
            last   == CHOOSE i \in closes : \A j \in closes : j <= i
        IN  IF tail # "" /\ At(tail, 1) = "(" /\ closes # {}
            THEN [matched |-> TRUE, name |-> SubSeq(deco, 1, n),
                  hasArgs |-> TRUE, args |-> SubSeq(tail, 2, last - 1)]
            ELSE [matched |-> TRUE, name |-> SubSeq(deco, 1, n),
                  hasArgs |-> FALSE, args |-> ""]

\* parse_decorator_line with the pieces of the argument list left untrimmed
parse_decorator_line_untrimmed(l) ==
    LET deco == LStripSet(l, {"@"})
        m    == ReMatch(deco)
    IN  IF ~m.matched
        THEN [type |-> "tuple", items |-> <<deco, <<>>>>]
        ELSE [type |-> "SimpleNamespace",
              name |-> m.name,
              args |-> IF m.hasArgs /\ m.args # "" THEN SplitOn(m.args, ",") ELSE <<>>]

\* parse_decorator_line(line): a SimpleNamespace when the pattern matches,
\* the tuple (deco, []) when it does not
parse_decorator_line(l) ==
    LET deco == LStripSet(l, {"@"})
        m    == ReMatch(deco)
    IN  IF ~m.matched
        THEN [type |-> "tuple", items |-> <<deco, <<>>>>]
        ELSE [type |-> "SimpleNamespace",
              name |-> m.name,
              args |-> IF m.hasArgs /\ m.args # ""
                       THEN StripAll(SplitOn(m.args, ","))
                       ELSE <<>>]

-----------------------------------------------------------------------------
(* The decorator extractor.                                                *)

\* get_decorator_lines(fn), given inspect.getsource(fn)
get_decorator_lines(source) ==
    LET func_index == Find(source, "def ")
        lines      == SplitLines(Strip(SliceTo(source, func_index)))
        stripped   == StripAll(lines)
    IN  SelectSeq(stripped, LAMBDA l : StartsWith(l, "@"))

\* get_decorators(fn), given inspect.getsource(fn)
get_decorators(source) ==
    LET lines == get_decorator_lines(source)
    IN  [i \in 1..Len(lines) |-> parse_decorator_line(lines[i])]

-----------------------------------------------------------------------------
(* The objects a module of the model may hold.                             *)

\* module.__name__ of the module under registration
ModuleName == "app"

R1 == [type |-> "APIRouter", id |-> "R1"]
R2 == [type |-> "APIRouter", id |-> "R2"]
Routers == {R1, R2}

\* a function object: __name__ and __module__
Function(type, name, mod) == [type |-> type, name |-> name, module |-> mod]

fetch_a         == Function("coroutine", "fetch_a", ModuleName)
noroute_fetch_b == Function("coroutine", "noroute_fetch_b", ModuleName)
x_y_z           == Function("coroutine", "x_y_z", ModuleName)
get_c           == Function("coroutine", "get_c", ModuleName)
get_t           == Function("coroutine", "get_t", ModuleName)
\* imported from another module
ext_fn          == Function("coroutine", "ext_fn", "other")
\* synthesized at run time, without source text
dyn_fn          == Function("coroutine", "dyn_fn", ModuleName)
\* an ordinary function
sync_fn         == Function("function", "sync_fn", ModuleName)

\* the decorator lines written above each function's definition
DecoratorText(fn) ==
    CASE fn = x_y_z -> "@router.get(\"/custom\", tags=[\"x\"])\n"
      \* an argument that holds the text "def "
      [] fn = get_c -> "@cache(key=\"def k\")\n@router.get(\"/c\")\n"
      \* a routing decorator above one written with a space after the marker
      [] fn = get_t -> "@router.get(\"/t\")\n@ traced\n"
      [] OTHER -> ""

\* whether inspect.getsource(fn) finds the source (else it raises OSError)
HasSource(fn) == fn # dyn_fn

\* inspect.getsource(fn): the decorator lines and the definition
getsource(fn) ==
    DecoratorText(fn)
    \o (IF fn.type = "coroutine" THEN "async def " ELSE "def ")
    \o fn.name \o "():\n\tpass\n"

Binding(name, obj) == [name |-> name, obj |-> obj]

\* the attributes the modules of the model are made of, in declaration order
AttrPool ==
    << Binding("router", R1),
       Binding("fetch_a", fetch_a),
       Binding("noroute_fetch_b", noroute_fetch_b),
       Binding("handler", noroute_fetch_b),
       Binding("also_a", fetch_a),
       Binding("x_y_z", x_y_z),
       Binding("get_c", get_c),
       Binding("get_t", get_t),
       Binding("ext_fn", ext_fn),
       Binding("dyn_fn", dyn_fn),
       Binding("sync_fn", sync_fn),
       Binding("api", R2) >>

RECURSIVE SubPool(_, _)
\* the attributes of AttrPool at the positions S, in the order of `order`
SubPool(order, S) ==
    IF order = <<>> THEN <<>>
    ELSE (IF Head(order) \in S THEN <<AttrPool[Head(order)]>> ELSE <<>>)
         \o SubPool(Tail(order), S)

Forward  == [i \in 1..Len(AttrPool) |-> i]
Backward == [i \in 1..Len(AttrPool) |-> Len(AttrPool) + 1 - i]

\* vars(module).items() of every module of the model: at most MaxAttrs
\* attributes, declared in the pool's order or in the reverse of it
Modules ==
    {SubPool(order, S) :
        order \in {Forward, Backward},
        S \in {T \in SUBSET (1..Len(AttrPool)) : Cardinality(T) <= MaxAttrs}}

NoneValue == [isNone |-> TRUE]
List(xs)  == [isNone |-> FALSE, items |-> xs]

\* the (methods, *args/**kwargs) of an invocation: the defaults of line 72,
\* or two methods and a keyword argument
ArgsPool ==
    { [methods |-> List(<<"get">>), extra |-> "none"],
      [methods |-> List(<<"get", "Post">>), extra |-> "tags=['auto']"] }

-----------------------------------------------------------------------------
(* The router finder and the registrar.                                    *)

RECURSIVE SortByName(_)
\* sorted(bindings) by attribute name
SortByName(bs) ==
    IF bs = {} THEN <<>>
    ELSE LET least == CHOOSE b \in bs : \A c \in bs \ {b} : StrLess(b.name, c.name)
         IN  <<least>> \o SortByName(bs \ {least})

\* the routers in the order of their attribute names, as dir(module) gives them
find_routers_sorted(attrs) ==
    SortByName({attrs[i] : i \in {j \in 1..Len(attrs) : attrs[j].obj.type = "APIRouter"}})

\* find_routers_in_module(module).items(): the dict keeps declaration order
find_routers_in_module(attrs) ==
    SelectSeq(attrs, LAMBDA b : b.obj.type = "APIRouter")

\* next(iter(d.items()), default): no StopIteration, a default router instead
NextOfIterOrDefault(items) ==
    IF items = <<>> THEN [raised |-> FALSE, name |-> "router", obj |-> R1]
    ELSE [raised |-> FALSE, name |-> items[1].name, obj |-> items[1].obj]

\* next(iter(d.items())): StopIteration on an empty dict
NextOfIter(items) ==
    IF items = <<>> THEN [raised |-> TRUE]
    ELSE [raised |-> FALSE, name |-> items[1].name, obj |-> items[1].obj]

\* inspect.getmembers(module, inspect.iscoroutinefunction): the attributes
\* that are coroutine functions, sorted by attribute name
getmembers(attrs) ==
    SortByName({attrs[i] : i \in {j \in 1..Len(attrs) : attrs[j].obj.type = "coroutine"}})

RECURSIVE AnyPrefixed(_, _)
\* any(d.name.startswith(router_name) for d in decorators): evaluated in
\* order, stopping at the first True; reading .name of a tuple raises
AnyPrefixed(decorators, name) ==
    IF decorators = <<>> THEN "False"
    ELSE IF Head(decorators).type # "SimpleNamespace" THEN "AttributeError"
    ELSE IF StartsWith(Head(decorators).name, name) THEN "True"
    ELSE AnyPrefixed(Tail(decorators), name)

\* has_fastapi_decorator of line 75
has_fastapi_decorator(fn, name) == AnyPrefixed(get_decorators(getsource(fn)), name)

\* the condition of lines 76-80
Passes(b, rname) ==
    /\ b.obj.module = ModuleName
    /\ has_fastapi_decorator(b.obj, rname) = "False"
    /\ ~StartsWith(b.name, "noroute_")

RECURSIVE ReplaceFirst(_, _, _)
\* s.replace(old, new, 1)
ReplaceFirst(s, old, new) ==
    IF s = "" THEN ""
    ELSE IF At(s, 1) = old THEN new \o SubSeq(s, 2, Len(s))
    ELSE At(s, 1) \o ReplaceFirst(SubSeq(s, 2, Len(s)), old, new)

\* the path with only the first underscore replaced
PathOfFirstOnly(handler) == "/" \o ReplaceFirst(handler.name, "_", "-")

\* the path of line 67
PathOf(handler) == "/" \o ReplaceChar(handler.name, "_", "-")

\* the call auto_route makes: router.add_api_route(path, handler, methods=..)
auto_route(handler, ms, x) ==
    LET given == IF ms.isNone THEN <<"get">> ELSE ms.items
    IN  [path |-> PathOf(handler), endpoint |-> handler,
         methods |-> UpperAll(given), extra |-> x]

\* router.add_api_route appending the route to the router's list
add_api_route(rs, r, entry) ==
    [q \in DOMAIN rs |-> IF q = r THEN Append(rs[q], entry) ELSE rs[q]]

Unparsed == [type |-> "unparsed"]

Init ==
    /\ module \in Modules
    /\ routes = [r \in Routers |-> <<>>]
    /\ pc = "idle"
    /\ router_name = ""
    /\ router = R1
    /\ members = <<>>
    /\ idx = 0
    /\ inspected = <<>>
    /\ methods = NoneValue
    /\ extra = "none"
    /\ err = "None"
    /\ before = [r \in Routers |-> <<>>]
    /\ calls = 0
    /\ clean = TRUE
    /\ line = ""
    /\ result = Unparsed

\* the exception is noted and the invocation goes on
RaiseAndGoOn(e) ==
    /\ pc' = pc
    /\ err' = e
    /\ clean' = FALSE

\* the exception leaves register_functions_as_routes
Raise(e) ==
    /\ pc' = "raised"
    /\ err' = e
    /\ clean' = FALSE

\* register_functions_as_routes is called: line 73, and line 74's getmembers
Call(a) ==
    /\ pc \in {"idle", "returned", "raised"}
    /\ calls < MaxCalls
    /\ calls' = calls + 1
    /\ methods' = a.methods
    /\ extra' = a.extra
    /\ before' = routes
    /\ inspected' = <<>>
    /\ idx' = 0
    /\ LET first == NextOfIter(find_routers_in_module(module))
       IN  IF first.raised
           THEN /\ Raise("StopIteration")
                /\ UNCHANGED <<router_name, router, members>>
           ELSE /\ router_name' = first.name
                /\ router' = first.obj
                /\ members' = getmembers(module)
                /\ pc' = "loop"
                /\ err' = "None"
                /\ clean' = clean
    /\ UNCHANGED <<module, routes, line, result>>

\* the member the loop takes next
Current == members[idx + 1]

InLoop == pc = "loop" /\ idx < Len(members)

\* line 75: inspect.getsource finds no source text
StepNoSource ==
    /\ InLoop
    /\ ~HasSource(Current.obj)
    /\ inspected' = Append(inspected, Current.name)
    /\ idx' = idx + 1
    /\ Raise("OSError")
    /\ UNCHANGED <<module, routes, router_name, router, members, methods, extra,
                   before, calls, line, result>>

\* line 75: a parsed decorator is a tuple and has no attribute `name`
StepNoAttribute ==
    /\ InLoop
    /\ HasSource(Current.obj)
    /\ has_fastapi_decorator(Current.obj, router_name) = "AttributeError"
    /\ inspected' = Append(inspected, Current.name)
    /\ idx' = idx + 1
    /\ Raise("AttributeError")
    /\ UNCHANGED <<module, routes, router_name, router, members, methods, extra,
                   before, calls, line, result>>

\* lines 75-80: the condition is false, the loop goes on
StepSkip ==
    /\ InLoop
    /\ HasSource(Current.obj)
    /\ has_fastapi_decorator(Current.obj, router_name) # "AttributeError"
    /\ ~Passes(Current, router_name)
    /\ inspected' = Append(inspected, Current.name)
    /\ idx' = idx + 1
    /\ UNCHANGED <<module, routes, pc, router_name, router, members, methods, extra,
                   err, before, calls, clean, line, result>>

\* lines 75-81: the condition is true and the router takes the route
StepRegister ==
    /\ InLoop
    /\ HasSource(Current.obj)
    /\ Passes(Current, router_name)
    /\ inspected' = Append(inspected, Current.name)
    /\ idx' = idx + 1
    /\ routes' = add_api_route(routes, router, auto_route(Current.obj, methods, extra))
    /\ UNCHANGED <<module, pc, router_name, router, members, methods, extra,
                   err, before, calls, clean, line, result>>

\* lines 75-81: the condition is true and router.add_api_route raises
StepRegisterFails ==
    /\ InLoop
    /\ HasSource(Current.obj)
    /\ Passes(Current, router_name)
    /\ inspected' = Append(inspected, Current.name)
    /\ idx' = idx + 1
    /\ Raise("RegistrationError")
    /\ UNCHANGED <<module, routes, router_name, router, members, methods, extra,
                   before, calls, line, result>>

\* the loop is exhausted and the function returns None
Return ==
    /\ pc = "loop"
    /\ idx = Len(members)
    /\ pc' = "returned"
    /\ UNCHANGED <<module, routes, router_name, router, members, idx, inspected,
                   methods, extra, err, before, calls, clean, line, result>>

Next ==
    \/ \E a \in ArgsPool : Call(a)
    \/ StepNoSource
    \/ StepNoAttribute
    \/ StepSkip
    \/ StepRegister
    \/ StepRegisterFails
    \/ Return

Spec == Init /\ [][Next]_vars

-----------------------------------------------------------------------------
(* Runs of the decorator parser alone: a line is drawn, then parsed.       *)

\* dotted identifiers
Idents == {"router.get", "cache", "app.api_v1.post", "r"}

\* raw argument texts, none holding a comma
Pieces == {"\"/custom\"", "tags=[\"x\"]", "f(x)", "a b", ""}

\* whitespace written around an argument, and between the name and "("
Pads == {"", " "}

PieceSeqs == UNION {[1..n -> Pieces] : n \in 0..MaxArgs}

RECURSIVE Join(_, _, _)
\* the pieces, each inside pad, with commas between them
Join(ps, pad, i) ==
    IF i > Len(ps) THEN ""
    ELSE pad \o ps[i] \o pad \o (IF i < Len(ps) THEN "," ELSE "") \o Join(ps, pad, i + 1)

\* the line @<ident><gap>(<arguments>)
Build(ident, gap, ps, pad) == "@" \o ident \o gap \o "(" \o Join(ps, pad, 1) \o ")"

SpecExample == "@router.get(\"/custom\", tags=[\"x\"])"

\* lines of the shape @<dotted-identifier>(<arguments>), and without a list
ShapedLines ==
    {Build(id, gap, ps, pad) : id \in Idents, gap \in Pads, ps \in PieceSeqs, pad \in Pads}

BareLines == {"@" \o id : id \in Idents}

\* lines whose text after the marker does not begin an identifier
OddLines ==
    {"@ " \o id : id \in Idents} \cup {"@(" \o id \o ")" : id \in Idents}
    \cup {"@", "@ router.get(\"/s\")", "@-x"}

Lines == ShapedLines \cup BareLines \cup OddLines \cup {SpecExample}

ParseInit ==
    /\ line \in Lines
    /\ result = Unparsed
    /\ module = <<>>
    /\ routes = [r \in Routers |-> <<>>]
    /\ pc = "idle"
    /\ router_name = ""
    /\ router = R1
    /\ members = <<>>
    /\ idx = 0
    /\ inspected = <<>>
    /\ methods = NoneValue
    /\ extra = "none"
    /\ err = "None"
    /\ before = [r \in Routers |-> <<>>]
    /\ calls = 0
    /\ clean = TRUE

\* parse_decorator_line(line) is called
ParseLine ==
    /\ result = Unparsed
    /\ result' = parse_decorator_line(line)
    /\ UNCHANGED <<line, module, routes, pc, router_name, router, members, idx,
                   inspected, methods, extra, err, before, calls, clean>>

ParseNext == ParseLine

ParseSpec == ParseInit /\ [][ParseNext]_vars

-----------------------------------------------------------------------------
(* What the claims speak of.                                               *)

\* the entries the running invocation has appended to the target router
Added == SubSeq(routes[router], Len(before[router]) + 1, Len(routes[router]))

\* how many entries of rs have f as their handler
Count(rs, f) == Cardinality({i \in 1..Len(rs) : rs[i].endpoint = f})

\* the objects bound in the module
Objects == {module[i].obj : i \in 1..Len(module)}

HasRouter == \E i \in 1..Len(module) : module[i].obj \in Routers

\* The decorators a function's source declares, read line by line: the lines
\* above the line that opens the definition, each `@`, optional whitespace
\* and a dotted name.
IsDefLine(l) == StartsWith(Strip(l), "async def ") \/ StartsWith(Strip(l), "def ")

DeclaredNames(source) ==
    LET ls    == SplitLines(source)
        defs  == {i \in 1..Len(ls) : IsDefLine(ls[i])}
        k     == CHOOSE i \in defs : \A j \in defs : i <= j
        above == SelectSeq(SubSeq(ls, 1, k - 1), LAMBDA l : StartsWith(Strip(l), "@"))
        text(l) == Strip(LStripSet(Strip(l), {"@"}))
    IN  [i \in 1..Len(above) |->
            SubSeq(text(above[i]), 1, RunLen(text(above[i]), WordChars \cup {"."}))]

\* the function's source carries a decorator whose dotted name starts with rname
CarriesDecorator(f, rname) ==
    /\ HasSource(f)
    /\ \E i \in 1..Len(DeclaredNames(getsource(f))) :
          StartsWith(DeclaredNames(getsource(f))[i], rname)

\* eligibility as the specification words it, for the function f
Eligible(f) ==
    /\ f.type = "coroutine"
    /\ f.module = ModuleName
    /\ ~CarriesDecorator(f, router_name)
    /\ ~StartsWith(f.name, "noroute_")

\* the methods an entry of the running invocation must carry
MethodsExpected == IF methods.isNone THEN <<"GET">> ELSE UpperAll(methods.items)

-----------------------------------------------------------------------------
(* The claims.                                                             *)

\* C1: no router ever holds a route whose handler is a function whose name
\* begins with noroute_, whatever attribute names the function is bound under.
C1_NoNorouteHandler ==
    \A r \in Routers : \A i \in 1..Len(routes[r]) :
        ~StartsWith(routes[r][i].endpoint.name, "noroute_")

\* C2: a function whose source carries a decorator whose dotted name starts
\* with the router's identifier is never given to the router's registration
\* operation, whatever the other decorator lines hold.
C2_NoRoutedHandler ==
    \A r \in Routers : \A i \in 1..Len(routes[r]) :
        ~CarriesDecorator(routes[r][i].endpoint, router_name)

\* C3: every route's path is "/" followed by the handler's name with each
\* underscore turned into a hyphen and every other character kept, whatever
\* the methods and the extra arguments of the invocation.
C3_PathFromName ==
    \A r \in Routers : \A i \in 1..Len(routes[r]) :
        LET e == routes[r][i]
            n == e.endpoint.name
        IN  /\ Len(e.path) = Len(n) + 1
            /\ At(e.path, 1) = "/"
            /\ \A k \in 1..Len(n) :
                  At(e.path, k + 1) = (IF At(n, k) = "_" THEN "-" ELSE At(n, k))

\* C3 witness: x_y_z is registered twice, under different methods and extra
\* arguments, both times at /x-y-z.
C3_Witness ==
    \E i, j \in 1..Len(routes[router]) :
        /\ routes[router][i].endpoint = x_y_z
        /\ routes[router][j].endpoint = x_y_z
        /\ routes[router][i].path = "/x-y-z"
        /\ routes[router][i].methods # routes[router][j].methods
        /\ routes[router][i].extra # routes[router][j].extra

\* C4: an invocation that returns has appended exactly one entry for each
\* eligible coroutine function and none for anything else, each entry under
\* the upper-cased methods (GET alone by default).
C4_OnePerEligible ==
    pc = "returned" =>
        /\ \A f \in Objects : Count(Added, f) = (IF Eligible(f) THEN 1 ELSE 0)
        /\ \A i \in 1..Len(Added) :
              /\ Added[i].endpoint \in Objects
              /\ Added[i].methods = MethodsExpected

\* C5: on a module without a router the invocation raises StopIteration,
\* having inspected no function and registered no route; and StopIteration
\* is raised on no other module.
C5_NoRouterError ==
    /\ (~HasRouter /\ calls > 0) =>
          /\ pc = "raised"
          /\ err = "StopIteration"
          /\ inspected = <<>>
          /\ \A r \in Routers : routes[r] = <<>>
    /\ err = "StopIteration" => ~HasRouter

\* C5 witness: a module that holds coroutine functions and no router has been
\* registered twice, and both invocations raised.
C5_Witness ==
    /\ err = "StopIteration"
    /\ calls = 2
    /\ \E f \in Objects : f.type = "coroutine"

\* C6: after n invocations that all returned, the router holds n entries for
\* each eligible function.
C6_NPerEligible ==
    (pc = "returned" /\ clean) =>
        \A f \in Objects : Eligible(f) => Count(routes[router], f) = calls

\* C9: when processing a member raises, the invocation ends there with that
\* error: the members up to the failing one have been inspected and no later
\* one, and only members before it have been registered.
C9_FailFast ==
    err \notin {"None", "StopIteration"} =>
        /\ pc = "raised"
        /\ idx \in 1..Len(members)
        /\ inspected = [i \in 1..idx |-> members[i].name]
        /\ Len(Added) <= idx - 1
        /\ \A i \in 1..Len(Added) : \E j \in 1..(idx - 1) : Added[i].endpoint = members[j].obj
        /\ err \in {"OSError", "AttributeError", "RegistrationError"}
        /\ (err = "OSError") = ~HasSource(members[idx].obj)

\* C9 witness: a member raised while a later member was still to come, after
\* an earlier one had been registered.
C9_Witness ==
    /\ pc = "raised"
    /\ err \in {"OSError", "AttributeError", "RegistrationError"}
    /\ idx < Len(members)
    /\ Len(Added) > 0

\* C10: the target is the first router in declaration order, under its
\* attribute name; routes are appended to it alone, every other router keeps
\* its routes, and the module's attributes never change.
C10_State ==
    (calls > 0 /\ HasRouter) =>
        /\ \E i \in 1..Len(module) :
              /\ module[i].obj \in Routers
              /\ \A j \in 1..(i - 1) : module[j].obj \notin Routers
              /\ router = module[i].obj
              /\ router_name = module[i].name
        /\ \A r \in Routers \ {router} : routes[r] = <<>>

C10_Step ==
    /\ module' = module
    /\ \A r \in Routers \ {router'} : routes'[r] = routes[r]
    /\ Len(routes'[router']) \in {Len(routes[router']), Len(routes[router']) + 1}
    /\ SubSeq(routes'[router'], 1, Len(routes[router'])) = routes[router']

C8_OddLineIsRecord ==
    (result # Unparsed /\ line \in OddLines) =>
        /\ result.type = "SimpleNamespace"
        /\ result.name = LStripSet(line, {"@"})
        /\ result.args = <<>>

=============================================================================
